---- MODULE Spec2Model ----
(***************************************************************************)
(* Matrix8x8: driver of an 8x8 LED matrix behind an HT16K33 (matrix8x8.py). *)
(* The driver object is the state: its framebuffer buf, the flags is_on    *)
(* and _blinking, and, for the I2C side, the payloads the last call handed *)
(* to i2c.send and the display RAM of the chip they end up in.  Every      *)
(* public method is one action: Python runs it to completion, there is no  *)
(* concurrency.                                                            *)
(***************************************************************************)
EXTENDS Integers, Sequences, FiniteSets, TLC

\* ------------------------------------------------------------------ bounds
\* Number of method calls made on a constructed driver.
MaxOps == 2

\* ------------------------------------------------- Python integer operators
\* x & y, x | y, x ^ y on non-negative Python integers, bit by bit.
RECURSIVE And(_, _)
And(x, y) ==
    IF x = 0 \/ y = 0 THEN 0
    ELSE (x % 2) * (y % 2) + 2 * And(x \div 2, y \div 2)

RECURSIVE Or(_, _)
Or(x, y) ==
    IF x = 0 THEN y
    ELSE IF y = 0 THEN x
    ELSE (IF x % 2 = 1 \/ y % 2 = 1 THEN 1 ELSE 0) + 2 * Or(x \div 2, y \div 2)

RECURSIVE Xor(_, _)
Xor(x, y) ==
    IF x = 0 THEN y
    ELSE IF y = 0 THEN x
    ELSE ((x + y) % 2) + 2 * Xor(x \div 2, y \div 2)

\* x >> n and x << n for n >= 0 (a negative n raises ValueError in Python;
\* the callers below test for it before they shift).
Shr(x, n) == x \div (2 ^ n)
Shl(x, n) == x * (2 ^ n)

\* x & ~m for non-negative x and m: ~m is the negative integer -m-1, whose
\* two's complement has every bit set but those of m, so the result is x
\* with the bits of m cleared.
AndNot(x, m) == x - And(x, m)

\* --------------------------------------------------- Python sequence access
\* A bytearray or tuple is a TLA+ sequence; Python index i is position i+1,
\* and a negative index counts from the end.
Norm(s, i) == IF i < 0 THEN i + Len(s) ELSE i
InRange(s, i) == Norm(s, i) >= 0 /\ Norm(s, i) < Len(s)
Get(s, i) == s[Norm(s, i) + 1]
Put(s, i, v) == [s EXCEPT ![Norm(s, i) + 1] = v]

Zeros(n) == [i \in 1..n |-> 0]

\* ------------------------------------------------------------ bit transform
rotate_right(byte) ==
    LET b0 == And(byte, 255)
        bit == And(b0, 1)
        b1 == Shr(b0, 1)
    IN  IF bit # 0 THEN Or(b1, 128) ELSE b1

\* Faulty variant: the rows at consecutive registers, stride 1.
row_addr_packed == <<0, 1, 2, 3, 4, 5, 6, 7>>

row_addr == <<0, 2, 4, 6, 8, 10, 12, 14>>

\* ------------------------------------------------------- payload builders
\* Each returns [data, err]: the payload handed to _send, or the exception
\* raised while building it (then data is empty and nothing is sent).
\* _send_row: row_addr[row] is evaluated before buf[row].
_send_row(b, row) ==
    IF ~InRange(row_addr, row) \/ ~InRange(b, row)
    THEN [data |-> <<>>, err |-> "IndexError"]
    ELSE [data |-> <<Get(row_addr, row), rotate_right(Get(b, row))>>,
          err |-> "none"]

\* Faulty variant: i starts at 0, the k-th byte at data[2k].
SendBufDataEven(b) ==
    [j \in 1..16 |->
        LET i == j - 1
        IN  IF i % 2 = 0 /\ i \div 2 < Len(b)
            THEN rotate_right(b[i \div 2 + 1])
            ELSE 0]

\* _send_buf: data = bytearray(16); i starts at 1 and the k-th byte of buf
\* (k = 0, 1, ...) is stored at data[1 + 2k]; data[17], for a ninth byte,
\* raises IndexError before anything is sent.
SendBufData(b) ==
    [j \in 1..16 |->
        LET i == j - 1
        IN  IF i % 2 = 1 /\ (i - 1) \div 2 < Len(b)
            THEN rotate_right(b[(i - 1) \div 2 + 1])
            ELSE 0]

_send_buf(b) ==
    IF 1 + 2 * (Len(b) - 1) > 15
    THEN [data |-> <<>>, err |-> "IndexError"]
    ELSE [data |-> SendBufData(b), err |-> "none"]

\* ------------------------------------------------------- column transforms
\* The loop of _clear_column from row on: [buf, err].  buf[row] on a
\* framebuffer shorter than 8 raises IndexError with the rows before it
\* already cleared.
RECURSIVE ClearColumnFrom(_, _, _)
ClearColumnFrom(b, mask, row) ==
    IF row = 8 THEN [buf |-> b, err |-> "none"]
    ELSE IF ~InRange(b, row) THEN [buf |-> b, err |-> "IndexError"]
    ELSE ClearColumnFrom(
            IF And(Get(b, row), mask) # 0
            THEN Put(b, row, Xor(Get(b, row), mask))
            ELSE b,
            mask, row + 1)

_clear_column(b, column) ==
    IF column < 0 THEN [buf |-> b, err |-> "ValueError"]
    ELSE ClearColumnFrom(b, Shr(128, column), 0)

\* The loop of _set_column from row on; mask is 0x80 >> row.
RECURSIVE SetColumnFrom(_, _, _, _, _)
SetColumnFrom(b, column, byte, mask, row) ==
    IF row = 8 THEN [buf |-> b, err |-> "none"]
    ELSE IF ~InRange(b, row) THEN [buf |-> b, err |-> "IndexError"]
    ELSE LET shift == column - row
             moved == IF shift >= 0 THEN Shr(And(byte, mask), shift)
                      ELSE Shl(And(byte, mask), -shift)
         IN  SetColumnFrom(Put(b, row, Or(Get(b, row), moved)),
                           column, byte, Shr(mask, 1), row + 1)

\* Faulty variant: the column is not cleared before the bits are OR-ed in.
_set_column_uncleared(b, column, byte) ==
    IF column < 0 THEN [buf |-> b, err |-> "ValueError"]
    ELSE IF byte = 0 THEN [buf |-> b, err |-> "none"]
    ELSE SetColumnFrom(b, column, byte, 128, 0)

_set_column(b, column, byte) ==
    LET c == _clear_column(b, column)
    IN  IF c.err # "none" \/ byte = 0 THEN c
        ELSE SetColumnFrom(c.buf, column, byte, 128, 0)

\* ---------------------------------------------- effects of the methods
\* What a method does to the framebuffer b and what it hands to _send:
\* [buf, data, err].  err is the exception raised before the transport is
\* reached ("none" if none), data the payload (empty if nothing is sent).
Raise(b, e) == [buf |-> b, data |-> <<>>, err |-> e]

RowPush(b, row) ==
    LET s == _send_row(b, row)
    IN  [buf |-> b, data |-> s.data, err |-> s.err]

BufPush(b) ==
    LET s == _send_buf(b)
    IN  [buf |-> b, data |-> s.data, err |-> s.err]

\* set: self.buf = bytearray(bitmap), whatever its length.
SetEffect(b, bitmap) == BufPush(bitmap)

\* clear: buf[i] = 0 for i in range(8); a framebuffer shorter than 8 raises
\* IndexError once its bytes are zeroed.
ClearEffect(b) ==
    LET z == [i \in 1..Len(b) |-> IF i <= 8 THEN 0 ELSE b[i]]
    IN  IF Len(b) < 8 THEN Raise(z, "IndexError") ELSE BufPush(z)

SetRowEffect(b, row, byte) ==
    IF ~InRange(b, row) THEN Raise(b, "IndexError")
    ELSE RowPush(Put(b, row, byte), row)

ClearRowEffect(b, row) == SetRowEffect(b, row, 0)

SetColumnEffect(b, column, byte) ==
    LET c == _set_column(b, column, byte)
    IN  IF c.err # "none" THEN Raise(c.buf, c.err) ELSE BufPush(c.buf)

ClearColumnEffect(b, column) ==
    LET c == _clear_column(b, column)
    IN  IF c.err # "none" THEN Raise(c.buf, c.err) ELSE BufPush(c.buf)

\* set_pixel: buf[row] is read (IndexError) before 0x80 >> column is
\* evaluated (ValueError for a negative column).
SetPixelEffect(b, row, column) ==
    IF ~InRange(b, row) THEN Raise(b, "IndexError")
    ELSE IF column < 0 THEN Raise(b, "ValueError")
    ELSE RowPush(Put(b, row, Or(Get(b, row), Shr(128, column))), row)

\* Faulty variant: buf[row] ^= mask, which toggles the pixel.
ClearPixelToggles(b, row, column) ==
    IF ~InRange(b, row) THEN Raise(b, "IndexError")
    ELSE IF column < 0 THEN Raise(b, "ValueError")
    ELSE RowPush(Put(b, row, Xor(Get(b, row), Shr(128, column))), row)

ClearPixelEffect(b, row, column) ==
    IF ~InRange(b, row) THEN Raise(b, "IndexError")
    ELSE IF column < 0 THEN Raise(b, "ValueError")
    ELSE RowPush(Put(b, row, AndNot(Get(b, row), Shr(128, column))), row)

\* The command byte of on(): 0x81 | self._blinking << 1 (<< binds tighter).
OnCommand(blink) == <<Or(129, Shl(blink, 1))>>

\* ------------------------------------------------------------------ state
VARIABLES
    phase,      \* "new" before Matrix8x8(...), "ready" once it returned,
                \* "dead" when it raised (no driver object exists)
    buf,        \* self.buf
    is_on,      \* self.is_on
    _blinking,  \* self._blinking
    sent,       \* the payloads the last call handed to i2c.send, in order
    err,        \* how the last call ended: "none" or the exception raised
    op,         \* the last call: [name, a, b] (method and arguments)
    pre,        \* buf and is_on as they were when the last call began
    ram,        \* the 16 display RAM registers of the HT16K33
    power_on,   \* the byte those registers held at power-on
    clean,      \* every call so far had in-range arguments and returned
    last_mode,  \* the mode of the most recent set_blinking (0 before any)
    ops         \* number of method calls counted against the bound

vars == <<phase, buf, is_on, _blinking, sent, err, op, pre, ram, power_on,
          clean, last_mode, ops>>

\* -------------------------------------------------------------- transport
\* The chip's side of i2c.send(data, addr): a one-byte payload is a command
\* and leaves the display RAM alone; in a longer one the first byte is the
\* start register and the bytes after it go to consecutive registers.
Write(r, data) ==
    IF Len(data) < 2 THEN r
    ELSE [i \in 0..15 |->
            IF \E k \in 2..Len(data) : (data[1] + k - 2) % 16 = i
            THEN data[CHOOSE k \in 2..Len(data) : (data[1] + k - 2) % 16 = i]
            ELSE r[i]]

RECURSIVE Deliver(_, _)
Deliver(r, calls) ==
    IF calls = <<>> THEN r ELSE Deliver(Write(r, Head(calls)), Tail(calls))

\* Faulty variant: a failing send is tried once more before the error is raised.
_send_retried(calls, failAt) ==
    IF failAt = 0 THEN calls
    ELSE SubSeq(calls, 1, failAt) \o <<calls[failAt]>>

\* _send: one i2c.send per payload; the exception of a failing send is not
\* caught.  failAt = 0: every send of calls succeeds; failAt = k: the k-th
\* raises OSError, so the calls after it are never made.  The payloads
\* handed to the transport:
_send(calls, failAt) ==
    IF failAt = 0 THEN calls ELSE SubSeq(calls, 1, failAt)

\* The payloads that reached the chip (a failed send delivers nothing).
Acked(calls, failAt) ==
    IF failAt = 0 THEN calls ELSE SubSeq(calls, 1, failAt - 1)

\* The bookkeeping every call shares.  newbuf: self.buf when the call ends;
\* calls: the payloads it hands to _send; pyerr: the exception it raises
\* before reaching the transport ("none" if none); argsOK: its arguments are
\* in the documented range.
Outcome(name, a, b, argsOK, newbuf, calls, pyerr, failAt) ==
    /\ failAt <= Len(calls)
    /\ op' = [name |-> name, a |-> a, b |-> b]
    /\ pre' = [buf |-> buf, is_on |-> is_on]
    /\ buf' = newbuf
    /\ sent' = _send(calls, failAt)
    /\ err' = IF pyerr # "none" THEN pyerr
              ELSE IF failAt # 0 THEN "OSError" ELSE "none"
    /\ ram' = Deliver(ram, Acked(calls, failAt))
    /\ power_on' = power_on
    /\ clean' = (clean /\ argsOK /\ pyerr = "none" /\ failAt = 0)

\* A method that works on the framebuffer alone, with effect e.
BufferMethod(name, a, b, argsOK, effect, failAt) ==
    /\ phase = "ready"
    /\ \E e \in {effect} :
          Outcome(name, a, b, argsOK, e.buf,
                  IF e.data = <<>> THEN <<>> ELSE <<e.data>>, e.err, failAt)
    /\ UNCHANGED <<phase, is_on, _blinking, last_mode>>

\* ---------------------------------------------------------------- actions
\* Faulty variant: the display is switched on before the framebuffer is cleared.
init_on_before_clear(brightness, failAt) ==
    /\ phase = "new"
    /\ Outcome("__init__", brightness, 0, brightness \in 0..15, Zeros(8),
               <<<<33>>, <<Or(224, brightness)>>, OnCommand(0),
                 BufPush(Zeros(8)).data>>,
               "none", failAt)
    /\ phase' = IF failAt = 0 THEN "ready" ELSE "dead"
    /\ is_on' = (failAt = 0 \/ failAt >= 3)
    /\ _blinking' = 0
    /\ last_mode' = 0

\* Matrix8x8(brightness=...): _blinking = 0, buf = bytearray(8), then
\* _send(0x21), set_brightness, clear, on.  A failing send leaves the
\* constructor by its exception and no object is returned.
__init__(brightness, failAt) ==
    /\ phase = "new"
    /\ Outcome("__init__", brightness, 0, brightness \in 0..15, Zeros(8),
               <<<<33>>, <<Or(224, brightness)>>, BufPush(Zeros(8)).data,
                 OnCommand(0)>>,
               "none", failAt)
    /\ phase' = IF failAt = 0 THEN "ready" ELSE "dead"
    /\ is_on' = (failAt = 0 \/ failAt = 4)
    /\ _blinking' = 0
    /\ last_mode' = 0

on(failAt) ==
    /\ phase = "ready"
    /\ Outcome("on", 0, 0, TRUE, buf, <<OnCommand(_blinking)>>, "none", failAt)
    /\ is_on' = TRUE
    /\ UNCHANGED <<phase, _blinking, last_mode>>

off(failAt) ==
    /\ phase = "ready"
    /\ Outcome("off", 0, 0, TRUE, buf, <<<<128>>>>, "none", failAt)
    /\ is_on' = FALSE
    /\ UNCHANGED <<phase, _blinking, last_mode>>

set_brightness(value, failAt) ==
    /\ phase = "ready"
    /\ Outcome("set_brightness", value, 0, value \in 0..15, buf,
               <<<<Or(224, value)>>>>, "none", failAt)
    /\ UNCHANGED <<phase, is_on, _blinking, last_mode>>

\* Faulty variant: on() runs whether or not the display is on.
set_blinking_always_on(mode, failAt) ==
    /\ phase = "ready"
    /\ Outcome("set_blinking", mode, 0, mode \in 0..3, buf,
               <<OnCommand(mode)>>, "none", failAt)
    /\ _blinking' = mode
    /\ last_mode' = mode
    /\ is_on' = TRUE
    /\ UNCHANGED phase

\* set_blinking: the mode is stored, and on() runs only if is_on.
set_blinking(mode, failAt) ==
    /\ phase = "ready"
    /\ Outcome("set_blinking", mode, 0, mode \in 0..3, buf,
               IF is_on THEN <<OnCommand(mode)>> ELSE <<>>, "none", failAt)
    /\ _blinking' = mode
    /\ last_mode' = mode
    /\ is_on' = is_on
    /\ UNCHANGED phase

set(bitmap, failAt) ==
    BufferMethod("set", bitmap, 0, Len(bitmap) = 8, SetEffect(buf, bitmap), failAt)

clear(failAt) ==
    BufferMethod("clear", 0, 0, TRUE, ClearEffect(buf), failAt)

set_row(row, byte, failAt) ==
    BufferMethod("set_row", row, byte, row \in 0..7,
                 SetRowEffect(buf, row, byte), failAt)

clear_row(row, failAt) ==
    BufferMethod("clear_row", row, 0, row \in 0..7,
                 ClearRowEffect(buf, row), failAt)

set_column(column, byte, failAt) ==
    BufferMethod("set_column", column, byte, column \in 0..7,
                 SetColumnEffect(buf, column, byte), failAt)

clear_column(column, failAt) ==
    BufferMethod("clear_column", column, 0, column \in 0..7,
                 ClearColumnEffect(buf, column), failAt)

set_pixel(row, column, failAt) ==
    BufferMethod("set_pixel", row, column, row \in 0..7 /\ column \in 0..7,
                 SetPixelEffect(buf, row, column), failAt)

clear_pixel(row, column, failAt) ==
    BufferMethod("clear_pixel", row, column, row \in 0..7 /\ column \in 0..7,
                 ClearPixelEffect(buf, row, column), failAt)

\* ------------------------------------------------------------- the inputs
\* What the display RAM may hold at power-on (the driver never reads it).
PowerOnBytes == {0, 255}

BrightnessArgs == {7, 16}
ModeArgs == {0, 2}
RowArgs == {-9, -1, 3, 8}
ColumnArgs == {-1, 3, 8}
ByteArgs == {165, 255}
Bitmaps ==
    { <<1, 2, 4, 8, 16, 32, 64, 128>>,
      <<129, 66, 36, 24, 24, 36, 66>>,
      <<1, 2, 3, 4, 5, 6, 7, 8, 9>> }

Init ==
    /\ phase = "new"
    /\ buf = <<>>
    /\ is_on = FALSE
    /\ _blinking = 0
    /\ sent = <<>>
    /\ err = "none"
    /\ op = [name |-> "none", a |-> 0, b |-> 0]
    /\ pre = [buf |-> <<>>, is_on |-> FALSE]
    /\ power_on \in PowerOnBytes
    /\ ram = [i \in 0..15 |-> power_on]
    /\ clean = TRUE
    /\ last_mode = 0
    /\ ops = 0

\* A method call counted against MaxOps.
Counted(call) == ops' = ops + 1 /\ call

\* The whole driver: construction, then any MaxOps method calls in any
\* order, each with a transport that may fail.
Next ==
    \/ \E brightness \in BrightnessArgs, failAt \in 0..4 :
          __init__(brightness, failAt) /\ UNCHANGED ops
    \/ ops < MaxOps /\ \E failAt \in 0..1 : Counted(on(failAt))
    \/ ops < MaxOps /\ \E failAt \in 0..1 : Counted(off(failAt))
    \/ ops < MaxOps /\ \E value \in BrightnessArgs, failAt \in 0..1 :
          Counted(set_brightness(value, failAt))
    \/ ops < MaxOps /\ \E mode \in ModeArgs, failAt \in 0..1 :
          Counted(set_blinking(mode, failAt))
    \/ ops < MaxOps /\ \E bitmap \in Bitmaps, failAt \in 0..1 :
          Counted(set(bitmap, failAt))
    \/ ops < MaxOps /\ \E failAt \in 0..1 : Counted(clear(failAt))
    \/ ops < MaxOps /\ \E row \in RowArgs, byte \in ByteArgs, failAt \in 0..1 :
          Counted(set_row(row, byte, failAt))
    \/ ops < MaxOps /\ \E row \in RowArgs, failAt \in 0..1 :
          Counted(clear_row(row, failAt))
    \/ ops < MaxOps /\ \E column \in ColumnArgs, byte \in ByteArgs, failAt \in 0..1 :
          Counted(set_column(column, byte, failAt))
    \/ ops < MaxOps /\ \E column \in ColumnArgs, failAt \in 0..1 :
          Counted(clear_column(column, failAt))
    \/ ops < MaxOps /\ \E row \in RowArgs, column \in ColumnArgs, failAt \in 0..1 :
          Counted(set_pixel(row, column, failAt))
    \/ ops < MaxOps /\ \E row \in RowArgs, column \in ColumnArgs, failAt \in 0..1 :
          Counted(clear_pixel(row, column, failAt))

Spec == Init /\ [][Next]_vars

\* ------------------------------------------------ power and blink control
\* Construction and then on, off, set_brightness and set_blinking, any
\* number of them in any order, over the whole range of their arguments
\* (and one past it).  None of them touches buf, so the state space is
\* finite without a bound on the number of calls.
AllBrightness == 0..16
AllModes == 0..3

NextCtl ==
    \/ \E brightness \in AllBrightness, failAt \in 0..4 :
          __init__(brightness, failAt) /\ UNCHANGED ops
    \/ \E failAt \in 0..1 : on(failAt) /\ UNCHANGED ops
    \/ \E failAt \in 0..1 : off(failAt) /\ UNCHANGED ops
    \/ \E value \in AllBrightness, failAt \in 0..1 :
          set_brightness(value, failAt) /\ UNCHANGED ops
    \/ \E mode \in AllModes, failAt \in 0..1 :
          set_blinking(mode, failAt) /\ UNCHANGED ops

SpecCtl == Init /\ [][NextCtl]_vars

\* ------------------------------------------- one call on a given bitmap
\* Construction, set(bitmap) for a framebuffer content, then one method
\* call on the framebuffer over the whole range of its arguments: every
\* row and column (and the first values outside), every byte.
AllRows == -9..8
AllColumns == -1..8
AllBytes == 0..255
Frames ==
    Bitmaps \cup
    { <<0, 0, 0, 0, 0, 0, 0, 0>>,
      <<255, 255, 255, 255, 255, 255, 255, 255>>,
      <<165, 90, 60, 195, 15, 240, 51, 204>>,
      <<16, 16, 16, 239, 16, 16, 16, 16>> }

\* The bitmap has been set and the one call is still to be made.
BitmapSet == ops = 1 /\ op.name = "set"

NextOne ==
    \/ \E failAt \in 0..4 : __init__(15, failAt) /\ UNCHANGED ops
    \/ ops = 0 /\ \E bitmap \in Frames, failAt \in 0..1 :
          Counted(set(bitmap, failAt))
    \/ BitmapSet /\ \E failAt \in 0..1 : Counted(clear(failAt))
    \/ BitmapSet /\ \E row \in AllRows, byte \in ByteArgs, failAt \in 0..1 :
          Counted(set_row(row, byte, failAt))
    \/ BitmapSet /\ \E row \in AllRows, failAt \in 0..1 :
          Counted(clear_row(row, failAt))
    \/ BitmapSet /\ \E column \in AllColumns, byte \in AllBytes, failAt \in 0..1 :
          Counted(set_column(column, byte, failAt))
    \/ BitmapSet /\ \E column \in AllColumns, failAt \in 0..1 :
          Counted(clear_column(column, failAt))
    \/ BitmapSet /\ \E row \in AllRows, column \in AllColumns, failAt \in 0..1 :
          Counted(set_pixel(row, column, failAt))
    \/ BitmapSet /\ \E row \in AllRows, column \in AllColumns, failAt \in 0..1 :
          Counted(clear_pixel(row, column, failAt))

SpecOne == Init /\ [][NextOne]_vars

\* ======================================================== the properties
\* Stated with plain arithmetic, not with the operators of the model.
\* The weight of column c in a row byte (0x80 >> c), and of row r in a
\* column byte.
Weight(c) == 2 ^ (7 - c)
BitOf(x, w) == (x \div w) % 2

\* Rotation right by one: bit 0 moves to bit 7, the others move down.
RotatedRight(x) == (x \div 2) + 128 * (x % 2)

\* before and after are 8-byte framebuffers that differ at most in row r.
OnlyRow(before, after, r) ==
    /\ Len(after) = 8
    /\ \A q \in 0..7 : q # r => after[q + 1] = before[q + 1]

\* They differ at most in the bit of column c of row r, which is v after.
PixelWritten(before, after, r, c, v) ==
    /\ OnlyRow(before, after, r)
    /\ after[r + 1] \in 0..255
    /\ BitOf(after[r + 1], Weight(c)) = v
    /\ \A k \in 0..7 : k # c =>
          BitOf(after[r + 1], Weight(k)) = BitOf(before[r + 1], Weight(k))

\* Column c of after, read row by row and MSB first, is the byte B, and no
\* other column differs from before.
ColumnWritten(before, after, c, B) ==
    /\ Len(after) = 8
    /\ \A r \in 0..7 :
          /\ after[r + 1] \in 0..255
          /\ BitOf(after[r + 1], Weight(c)) = BitOf(B, Weight(r))
          /\ \A k \in 0..7 : k # c =>
                BitOf(after[r + 1], Weight(k)) = BitOf(before[r + 1], Weight(k))

ReadColumn(b, c) ==
    BitOf(b[1], Weight(c)) * 128 + BitOf(b[2], Weight(c)) * 64
    + BitOf(b[3], Weight(c)) * 32 + BitOf(b[4], Weight(c)) * 16
    + BitOf(b[5], Weight(c)) * 8 + BitOf(b[6], Weight(c)) * 4
    + BitOf(b[7], Weight(c)) * 2 + BitOf(b[8], Weight(c))

FullPushMethods == {"set", "clear", "set_column", "clear_column"}
RowPushMethods == {"set_row", "clear_row", "set_pixel", "clear_pixel"}

\* The arguments of the last call, a mutating method, are in range.
LastArgsInRange ==
    CASE op.name = "set" -> Len(op.a) = 8
      [] op.name = "clear" -> TRUE
      [] op.name \in {"set_row", "clear_row", "set_column", "clear_column"} ->
            op.a \in 0..7
      [] op.name \in {"set_pixel", "clear_pixel"} ->
            op.a \in 0..7 /\ op.b \in 0..7

\* The last call got as far as the transport.
Pushed == err \in {"none", "OSError"}

\* C1 as the spec states it: a full-buffer push hands the transport one
\* 16-byte payload with rotate_right_1(framebuffer[i/2]) at the even indices
\* i = 0, 2, ..., 14 and 0 at the odd ones.
C1_PayloadEvenIndices ==
    (op.name \in FullPushMethods /\ Len(buf) = 8 /\ Pushed) =>
        /\ Len(sent) = 1
        /\ Len(sent[1]) = 16
        /\ \A i \in 0..15 :
              sent[1][i + 1] =
                 IF i % 2 = 0 THEN RotatedRight(buf[i \div 2 + 1]) ELSE 0

\* C1 amended: a full-buffer push hands the transport one 16-byte payload
\* with rotate_right_1(framebuffer[k]) at the odd index 2k+1 for every row k
\* of the framebuffer and 0 at every other index, index 0 included.  On an
\* 8-byte framebuffer with in-range arguments the push always happens; a
\* method that raises before it hands the transport nothing.
C1_PayloadOddIndices ==
    op.name \in FullPushMethods =>
        /\ (Len(pre.buf) = 8 /\ LastArgsInRange) => Pushed
        /\ ~Pushed => sent = <<>>
        /\ Pushed =>
              /\ Len(sent) = 1
              /\ Len(sent[1]) = 16
              /\ \A i \in 0..15 :
                    sent[1][i + 1] =
                       IF i % 2 = 1 /\ (i - 1) \div 2 < Len(buf)
                       THEN RotatedRight(buf[(i - 1) \div 2 + 1]) ELSE 0

C1_Witness ==
    /\ op.name = "set_column" /\ op.a = 3 /\ op.b = 255
    /\ err = "none" /\ Len(buf) = 8
    /\ \A k \in 0..7 : sent[1][2 * k + 2] # 0

\* C2: after set_column(c, B), c in 0..7 and B in 0..255, on any 8-byte
\* framebuffer, the bit of column c in row r is the bit of row r in B for
\* every row r (so the column reads back as B), and no other bit changed.
C2_SetColumnRoundTrip ==
    (op.name = "set_column" /\ op.a \in 0..7 /\ op.b \in 0..255
        /\ Len(pre.buf) = 8) =>
        /\ ColumnWritten(pre.buf, buf, op.a, op.b)
        /\ ReadColumn(buf, op.a) = op.b

C2_Witness ==
    /\ op.name = "set_column" /\ op.a = 3 /\ op.b = 165
    /\ Len(pre.buf) = 8
    /\ ReadColumn(pre.buf, 3) = 239
    /\ err = "none"

\* C3: set_pixel(r, c) leaves the bit of column c in row r set and
\* clear_pixel(r, c) leaves it cleared, r and c in 0..7, on any 8-byte
\* framebuffer; no other bit of the row and no other row changes.
C3_PixelFrame ==
    (op.name \in {"set_pixel", "clear_pixel"} /\ op.a \in 0..7
        /\ op.b \in 0..7 /\ Len(pre.buf) = 8) =>
        PixelWritten(pre.buf, buf, op.a, op.b,
                     IF op.name = "set_pixel" THEN 1 ELSE 0)

C3_Witness ==
    /\ op.name = "clear_pixel" /\ op.a = 7 /\ op.b = 6
    /\ Len(pre.buf) = 8
    /\ BitOf(pre.buf[8], Weight(6)) = 1
    /\ pre.buf[8] # Weight(6)
    /\ err = "none"

\* C4: set_blinking(mode), mode in 0..3, makes exactly one transport call,
\* 0x81 | (mode << 1), when the display is on and none when it is off; and
\* on() sends 0x81 | (mode << 1) for the mode stored last.
C4_BlinkCommand ==
    /\ (op.name = "set_blinking" /\ op.a \in 0..3) =>
          sent = IF pre.is_on THEN << <<129 + 2 * op.a>> >> ELSE <<>>
    /\ op.name = "on" => sent = << <<129 + 2 * last_mode>> >>

C4_Witness ==
    /\ op.name = "on" /\ ~pre.is_on /\ last_mode = 3
    /\ sent = << <<135>> >> /\ err = "none"

\* C5: the framebuffer always holds exactly 8 bytes; set(bitmap) with a
\* bitmap of another length is rejected and leaves the framebuffer alone.
C5_AlwaysEightBytes ==
    phase = "ready" =>
        /\ Len(buf) = 8
        /\ (op.name = "set" /\ Len(op.a) # 8) =>
              (err = "LengthError" /\ buf = pre.buf /\ sent = <<>>)

\* C6: set_row(row, byte) and clear_row(row) with a row outside 0..7,
\* negative ones included, end in an index error with the framebuffer
\* unchanged and nothing sent; with a row in 0..7 they replace that row
\* alone and push that row alone.
C6_RowRangeChecked ==
    (op.name \in {"set_row", "clear_row"} /\ Len(pre.buf) = 8) =>
        IF op.a \in 0..7
        THEN /\ OnlyRow(pre.buf, buf, op.a)
             /\ buf[op.a + 1] = op.b
             /\ sent = << <<2 * op.a, RotatedRight(op.b)>> >>
        ELSE err = "IndexError" /\ buf = pre.buf /\ sent = <<>>

\* C7: set_brightness(v) sends the one command byte 0xE0 | v for v in
\* 0..15 and is rejected, with nothing sent, for any other v: no brightness
\* command outside 0xE0..0xEF reaches the transport.
C7_BrightnessRangeChecked ==
    op.name = "set_brightness" =>
        IF op.a \in 0..15
        THEN sent = << <<224 + op.a>> >>
        ELSE err = "ValueError" /\ sent = <<>>

\* C8: a construction with brightness b in 0..15 whose transport calls all
\* succeed makes exactly four of them: 0x21, 0xE0 | b, the full-buffer push
\* of an all-zero framebuffer, 0x81; the framebuffer is then all zero and
\* the display is marked on.
C8_ConstructionSequence ==
    (op.name = "__init__" /\ op.a \in 0..15 /\ err = "none") =>
        /\ sent = << <<33>>, <<224 + op.a>>, Zeros(16), <<129>> >>
        /\ buf = Zeros(8)
        /\ is_on
        /\ phase = "ready"

C8_Witness ==
    op.name = "__init__" /\ op.a = 10 /\ err = "none" /\ phase = "ready"

\* What the framebuffer must hold once the last call, a mutating method
\* with in-range arguments on an 8-byte framebuffer, has written to it.
WrittenByLastCall ==
    CASE op.name = "set" -> buf = op.a
      [] op.name = "clear" -> buf = Zeros(8)
      [] op.name \in {"set_row", "clear_row"} ->
            OnlyRow(pre.buf, buf, op.a) /\ buf[op.a + 1] = op.b
      [] op.name = "set_column" -> ColumnWritten(pre.buf, buf, op.a, op.b)
      [] op.name = "clear_column" -> ColumnWritten(pre.buf, buf, op.a, 0)
      [] op.name = "set_pixel" -> PixelWritten(pre.buf, buf, op.a, op.b, 1)
      [] op.name = "clear_pixel" -> PixelWritten(pre.buf, buf, op.a, op.b, 0)

\* C9: when the transport call of a mutating method fails, the method ends
\* with that error after exactly one attempted transport call, and the
\* framebuffer holds what the method wrote (no retry, no rollback).
C9_FailedPushKeepsWrite ==
    (op.name \in FullPushMethods \cup RowPushMethods /\ err = "OSError") =>
        /\ Len(sent) = 1
        /\ (Len(pre.buf) = 8 /\ LastArgsInRange) => WrittenByLastCall

\* The failed push left the chip showing something else than the framebuffer.
C9_Witness ==
    /\ op.name = "set_row" /\ op.a = 3 /\ err = "OSError"
    /\ Len(buf) = 8 /\ buf # pre.buf
    /\ ram[6] # RotatedRight(buf[4])

\* C10 as claimed: after construction and any calls with in-range arguments
\* that all succeeded, register 2r of the display RAM holds
\* rotate_right(framebuffer[r]) for every row r and every odd register
\* holds 0.
C10_RamMirrorsAllOddZero ==
    (phase = "ready" /\ clean) =>
        /\ \A r \in 0..7 : ram[2 * r] = RotatedRight(buf[r + 1])
        /\ \A r \in 0..7 : ram[2 * r + 1] = 0

\* C10 amended: ... register 2r holds rotate_right(framebuffer[r]) for every
\* row r and the odd registers 1, 3, ..., 13 hold 0; register 15 is never
\* written and holds what it held at power-on.
C10_RamMirrors ==
    (phase = "ready" /\ clean) =>
        /\ Len(buf) = 8
        /\ \A r \in 0..7 : ram[2 * r] = RotatedRight(buf[r + 1])
        /\ \A r \in 0..6 : ram[2 * r + 1] = 0
        /\ ram[15] = power_on

\* A row push after a full-buffer push.
C10_Witness ==
    /\ phase = "ready" /\ clean
    /\ op.name = "set_row" /\ op.a = 3 /\ op.b = 165
    /\ buf[1] # 0 /\ buf[8] # 0

====
